---- MODULE Spec2Model ----
(***************************************************************************)
(* Model of streamlit_app.py (SubuM/sat_weather): the fetch flow of main,  *)
(* the two OpenWeatherMap fetch functions, display_weather and the         *)
(* forecast grouping / card-grid pipeline of display_forecast.             *)
(*                                                                         *)
(* Conventions.  A number that may be None or np.nan is a record          *)
(* [k, v]: k = "None" is Python's None (what dict.get returns for an       *)
(* absent key), k = "nan" is np.nan, k = "val" is the integer v.  A        *)
(* datetime that may be None is a sequence: <<>> or <<dt>>.  Rendered      *)
(* text is a string token: "num" stands for a correctly formatted number;  *)
(* "N/A", "nan" and "None" are the literal texts Python produces.          *)
(***************************************************************************)
EXTENDS Integers, Sequences, FiniteSets, TLC

(***************************************************************************)
(* Bounds of the model                                                     *)
(***************************************************************************)
MaxLen == 3        \* longest arbitrary forecast list
MaxFeed == 9       \* longest chronological forecast feed
MaxMissing == 1    \* most optional fields absent from a current payload
MaxFlowLen == 1    \* longest arbitrary forecast list in the main flow

(***************************************************************************)
(* Program constants                                                       *)
(***************************************************************************)
cols_per_row == 4
PLACEHOLDER == "PLACEHOLDER_FOR_SECRETS_NOT_LOADED"
REAL_KEY == "k3y"

None == [k |-> "None", v |-> 0]
Some(x) == [k |-> "val", v |-> x]
NaN == [k |-> "nan", v |-> 0]
NoDT == <<>>

Min(a, b) == IF a < b THEN a ELSE b

(***************************************************************************)
(* datetime: a datetime is [date |-> [y, m, d], secs |-> second of day].   *)
(* The proleptic Gregorian calendar of Python's datetime module.           *)
(***************************************************************************)
SecsPerDay == 24 * 60 * 60

\* date.fromordinal relative to 1970-01-01: day number -> (y, m, d)
civil_from_days(days) ==
    LET z == days + 719468
        era == z \div 146097
        doe == z - era * 146097
        yoe == (doe - (doe \div 1460) + (doe \div 36524) - (doe \div 146096)) \div 365
        doy == doe - (365 * yoe + (yoe \div 4) - (yoe \div 100))
        mp == (5 * doy + 2) \div 153
        d == doy - ((153 * mp + 2) \div 5) + 1
        m == IF mp < 10 THEN mp + 3 ELSE mp - 9
        y == yoe + era * 400 + (IF m <= 2 THEN 1 ELSE 0)
    IN  [y |-> y, m |-> m, d |-> d]

\* date.toordinal relative to 1970-01-01: (y, m, d) -> day number
days_from_civil(date) ==
    LET y == date.y - (IF date.m <= 2 THEN 1 ELSE 0)
        era == y \div 400
        yoe == y - era * 400
        mp == IF date.m > 2 THEN date.m - 3 ELSE date.m + 9
        doy == ((153 * mp + 2) \div 5) + date.d - 1
        doe == yoe * 365 + (yoe \div 4) - (yoe \div 100) + doy
    IN  era * 146097 + doe - 719468

\* datetime.datetime.utcfromtimestamp
utcfromtimestamp(ts) ==
    [date |-> civil_from_days(ts \div SecsPerDay), secs |-> ts % SecsPerDay]

\* datetime + datetime.timedelta(seconds=offset)
add_timedelta(dt, offset) ==
    LET total == days_from_civil(dt.date) * SecsPerDay + dt.secs + offset
    IN  [date |-> civil_from_days(total \div SecsPerDay), secs |-> total % SecsPerDay]

convert_timestamp_to_local(timestamp_utc, timezone_offset) ==
    IF timestamp_utc = None \/ timezone_offset = None
    THEN NoDT
    ELSE <<add_timedelta(utcfromtimestamp(timestamp_utc.v), timezone_offset.v)>>

\* dt.strftime('%H:%M')
strftime_HM(dt) == <<dt.secs \div 3600, (dt.secs % 3600) \div 60>>

\* dt.date()
date_of(dt) == dt.date

\* str(date): 'YYYY-MM-DD' as a sequence of characters
DigitChars == <<"0", "1", "2", "3", "4", "5", "6", "7", "8", "9">>
Chr(n) == DigitChars[n + 1]
Ord(c) == (CHOOSE i \in 1..10 : DigitChars[i] = c) - 1

str_date(date) ==
    << Chr(date.y \div 1000), Chr((date.y \div 100) % 10),
       Chr((date.y \div 10) % 10), Chr(date.y % 10), "-",
       Chr(date.m \div 10), Chr(date.m % 10), "-",
       Chr(date.d \div 10), Chr(date.d % 10) >>

\* datetime.datetime.strptime(s, '%Y-%m-%d')
strptime_ymd(s) ==
    [date |-> [y |-> Ord(s[1]) * 1000 + Ord(s[2]) * 100 + Ord(s[3]) * 10 + Ord(s[4]),
               m |-> Ord(s[6]) * 10 + Ord(s[7]),
               d |-> Ord(s[9]) * 10 + Ord(s[10])],
     secs |-> 0]

DayNames == <<"Monday", "Tuesday", "Wednesday", "Thursday", "Friday", "Saturday", "Sunday">>
MonthNames == <<"Jan", "Feb", "Mar", "Apr", "May", "Jun", "Jul", "Aug", "Sep", "Oct", "Nov", "Dec">>

\* dt.strftime('%A'): the weekday of the datetime's own calendar date
strftime_A(dt) == DayNames[((days_from_civil(dt.date) + 3) % 7) + 1]

\* date.strftime('%b %d')
strftime_bd(date) == <<MonthNames[date.m], date.d>>

(***************************************************************************)
(* get_wind_direction                                                      *)
(***************************************************************************)
directions == <<"N", "NNE", "NE", "ENE", "E", "ESE", "SE", "SSE",
                "S", "SSW", "SW", "WSW", "W", "WNW", "NW", "NNW">>

\* Python round(): half to even, for deg / 22.5 = (2 * deg) / 45, deg an integer
round_div(num, den) ==
    LET q == num \div den
        r == num % den
    IN  IF 2 * r < den THEN q
        ELSE IF 2 * r > den THEN q + 1
        ELSE IF q % 2 = 0 THEN q ELSE q + 1

\* deg is None, np.nan or an integer; the result is a direction or "raise":
\* round(nan) raises ValueError
get_wind_direction(deg) ==
    IF deg = None THEN "N/A"
    ELSE IF deg = NaN THEN "raise"
    ELSE directions[(round_div(2 * deg.v, 45) % Len(directions)) + 1]

(***************************************************************************)
(* display_forecast: the grouping and card-grid pipeline                   *)
(*                                                                         *)
(* A forecast item is [dt, temp, feels_like, humidity, speed, deg]; each   *)
(* field is None when its key is absent from the API entry.  A forecast    *)
(* payload is [haslist, list].                                             *)
(***************************************************************************)

\* dict.get(key, np.nan) for the numeric fields of an entry
get_or_nan(x) == IF x = None THEN NaN ELSE x

\* data.get('list', [])
forecast_list_of(data) == IF data.haslist THEN data.list ELSE <<>>

\* The row dictionary built for one entry (idx: position of the entry in the
\* input list, kept to identify the entry in the output)
row_of(item, i, dt_local) ==
    [idx |-> i,
     Time |-> strftime_HM(dt_local),
     Temp |-> get_or_nan(item.temp),
     FeelsLike |-> get_or_nan(item.feels_like),
     Humidity |-> get_or_nan(item.humidity),
     WindSpeed |-> get_or_nan(item.speed),
     WindDeg |-> get_or_nan(item.deg),
     FilterDate |-> date_of(dt_local)]

\* The loop that builds forecast_rows: entries whose local time is None are
\* skipped
forecast_rows(forecast_list, timezone_offset) ==
    LET RECURSIVE build(_)
        build(i) ==
            IF i = 0 THEN <<>>
            ELSE LET item == forecast_list[i]
                     dt_local == convert_timestamp_to_local(item.dt, timezone_offset)
                 IN  IF dt_local = NoDT THEN build(i - 1)
                     ELSE Append(build(i - 1), row_of(item, i, dt_local[1]))
    IN  build(Len(forecast_list))

\* Variant: the distinct dates sorted (what np.unique would give) instead of
\* first-seen order
unique_dates_sorted(df_forecast) ==
    LET dates == {df_forecast[i].FilterDate : i \in 1..Len(df_forecast)}
        RECURSIVE sorted(_)
        sorted(S) ==
            IF S = {} THEN <<>>
            ELSE LET least == CHOOSE d \in S :
                                 \A e \in S : days_from_civil(d) <= days_from_civil(e)
                 IN  <<least>> \o sorted(S \ {least})
    IN  sorted(dates)

\* df_forecast['FilterDate'].unique(): distinct dates in first-seen order
unique_dates(df_forecast) ==
    LET RECURSIVE uniq(_)
        uniq(i) ==
            IF i = 0 THEN <<>>
            ELSE LET u == uniq(i - 1)
                 IN  IF \E j \in 1..Len(u) : u[j] = df_forecast[i].FilterDate
                     THEN u
                     ELSE Append(u, df_forecast[i].FilterDate)
    IN  uniq(Len(df_forecast))

\* Variant: the "Tomorrow" branch is missing
tab_title_no_tomorrow(i, date) ==
    [title |-> IF i = 0 THEN "Today"
               ELSE strftime_A(strptime_ymd(str_date(date))),
     suffix |-> strftime_bd(date)]

\* The tab title of the i-th date (i counted from 0 as in enumerate)
tab_title(i, date) ==
    [title |-> IF i = 0 THEN "Today"
               ELSE IF i = 1 THEN "Tomorrow"
               ELSE strftime_A(strptime_ymd(str_date(date))),
     suffix |-> strftime_bd(date)]

tab_titles(dates) == [i \in 1..Len(dates) |-> tab_title(i - 1, dates[i])]

\* df_forecast[df_forecast['FilterDate'] == date]
IsDate(row, date) == row.FilterDate = date
df_day(df_forecast, date) == SelectSeq(df_forecast, LAMBDA row : IsDate(row, date))

\* (num_cards + cols_per_row - 1) // cols_per_row
num_rows(num_cards) == (num_cards + cols_per_row - 1) \div cols_per_row

\* f"{x:.1f}" / f"{x:.0f}" of a number or of np.nan
fmt_float(x) == IF x = NaN THEN "nan" ELSE "num"

\* The html card of one row
html_card(hour_data, wind_dir) ==
    [idx |-> hour_data.idx,
     Time |-> hour_data.Time,
     Temp |-> fmt_float(hour_data.Temp),
     FeelsLike |-> fmt_float(hour_data.FeelsLike),
     Humidity |-> fmt_float(hour_data.Humidity),
     WindSpeed |-> fmt_float(hour_data.WindSpeed),
     WindDir |-> wind_dir]

\* One grid row: the loop over internal_idx in start_card_index..end_card_index-1.
\* The result is the cards placed and the fault that stopped the loop.
render_row(day, row_idx) ==
    LET num_cards == Len(day)
        start_card_index == row_idx * cols_per_row
        end_card_index == Min(start_card_index + cols_per_row, num_cards)
        RECURSIVE place(_)
        place(k) ==
            IF k = start_card_index THEN [cards |-> <<>>, fault |-> "none"]
            ELSE LET prev == place(k - 1)
                     hour_data == day[k]
                     wind_dir == get_wind_direction(hour_data.WindDeg)
                 IN  IF prev.fault # "none" THEN prev
                     ELSE IF wind_dir = "raise"
                          THEN [prev EXCEPT !.fault = "ValueError"]
                          ELSE [prev EXCEPT !.cards = Append(@, html_card(hour_data, wind_dir))]
    IN  place(end_card_index)

\* One tab: the loop over row_idx in range(num_rows)
render_tab(day) ==
    LET RECURSIVE rows(_)
        rows(r) ==
            IF r = 0 THEN [rows |-> <<>>, fault |-> "none"]
            ELSE LET prev == rows(r - 1)
                     this == render_row(day, r - 1)
                 IN  IF prev.fault # "none" THEN prev
                     ELSE [rows |-> Append(prev.rows, this.cards), fault |-> this.fault]
    IN  rows(num_rows(Len(day)))

\* The loop over the tabs; a tab that was not reached has no rows
render_tabs(df_forecast, dates) ==
    LET RECURSIVE tabs(_)
        tabs(i) ==
            IF i = 0 THEN [grid |-> <<>>, fault |-> "none"]
            ELSE LET prev == tabs(i - 1)
                     this == render_tab(df_day(df_forecast, dates[i]))
                 IN  IF prev.fault # "none"
                     THEN [prev EXCEPT !.grid = Append(@, <<>>)]
                     ELSE [grid |-> Append(prev.grid, this.rows), fault |-> this.fault]
    IN  tabs(Len(dates))

\* display_forecast(data, timezone_offset): what the page shows afterwards.
\*   warning: the "No forecast data available" warning was shown
\*   fault:   the exception that ended the function, "none" if it returned
\*   titles:  the tab titles handed to st.tabs
\*   grid:    per tab, the rows of cards placed
display_forecast(data, timezone_offset) ==
    LET forecast_list == forecast_list_of(data)
        df_forecast == forecast_rows(forecast_list, timezone_offset)
        dates == unique_dates(df_forecast)
        shown == render_tabs(df_forecast, dates)
    IN  IF forecast_list = <<>>
        THEN [warning |-> TRUE, fault |-> "none", titles |-> <<>>, grid |-> <<>>]
        ELSE IF df_forecast = <<>>
        THEN \* pd.DataFrame([])['FilterDate'] raises KeyError
             [warning |-> FALSE, fault |-> "KeyError", titles |-> <<>>, grid |-> <<>>]
        ELSE [warning |-> FALSE, fault |-> shown.fault,
              titles |-> tab_titles(dates), grid |-> shown.grid]

NoForecastOut == [warning |-> FALSE, fault |-> "none", titles |-> <<>>, grid |-> <<>>]

(***************************************************************************)
(* display_weather                                                         *)
(*                                                                         *)
(* A current-conditions payload is a record of its optional fields, each   *)
(* None when absent; timezone is Absent (no key), None (null) or a value.  *)
(***************************************************************************)
Absent == [k |-> "absent", v |-> 0]

\* data.get('timezone', 0)
get_timezone(data) == IF data.timezone = Absent THEN Some(0) ELSE data.timezone

\* f"{x:.1f}" of a number or None: formatting None raises TypeError
fmt_1f(x) == IF x = None THEN "raise" ELSE "num"

\* f"{x}" of a number or None
fmt_plain(x) == IF x = None THEN "None" ELSE "num"

\* f"{x} ..." if x is not None else 'N/A'
fmt_or_na(x) == IF x = None THEN "N/A" ELSE "num"

\* dt.strftime('%H:%M:%S') if dt else 'N/A'
fmt_time(dt) == IF dt = NoDT THEN "N/A" ELSE "time"

Widget(label, text) == [label |-> label, text |-> text]

\* The widgets of display_weather in the order the function emits them,
\* with "raise" where evaluating the widget's text raises
weather_widgets(data) ==
    LET timezone_offset == get_timezone(data)
        wind_dir == get_wind_direction(data.wind_deg)
        sunrise_local == convert_timestamp_to_local(data.sunrise, timezone_offset)
        sunset_local == convert_timestamp_to_local(data.sunset, timezone_offset)
    IN  << Widget("Header", "text"),
           Widget("Condition", "text"),
           Widget("Temperature", fmt_1f(data.temp)),
           Widget("Feels Like", fmt_1f(data.feels_like)),
           Widget("Sunrise", fmt_time(sunrise_local)),
           Widget("Sunset", fmt_time(sunset_local)),
           Widget("Min/Max Temp", IF fmt_1f(data.temp_min) = "raise" THEN "raise"
                                  ELSE fmt_1f(data.temp_max)),
           Widget("Wind Speed", fmt_plain(data.wind_speed)),
           Widget("Wind Direction", IF data.wind_deg # None THEN wind_dir ELSE "N/A"),
           Widget("Pressure", fmt_plain(data.pressure)),
           Widget("Humidity", fmt_plain(data.humidity)),
           Widget("Visibility", fmt_or_na(data.visibility)),
           Widget("Cloudiness", fmt_or_na(data.clouds)),
           Widget("Wind Gust", fmt_or_na(data.wind_gust)),
           Widget("Precipitation", "num") >>

\* display_weather(data): the widgets shown and the exception that ended the
\* function ("none" if it returned)
display_weather(data) ==
    LET all == weather_widgets(data)
        bad == {i \in 1..Len(all) : all[i].text = "raise"}
        first == IF bad = {} THEN Len(all) + 1
                 ELSE CHOOSE i \in bad : \A j \in bad : i <= j
    IN  [widgets |-> SubSeq(all, 1, first - 1),
         fault |-> IF bad = {} THEN "none" ELSE "TypeError"]

NoWeatherOut == [widgets |-> <<>>, fault |-> "none"]

(***************************************************************************)
(* The fetch functions.  A response is [status, body]: status "ok" carries *)
(* the payload in body; "404" and "500" make raise_for_status raise        *)
(* HTTPError; "transport" makes requests.get raise a RequestException.     *)
(* A fetch returns [ret, msgs, reqs]: the value returned (<<>> is None),   *)
(* the messages shown and the HTTP requests issued.                        *)
(***************************************************************************)
CURRENT_WEATHER_URL == "http://api.openweathermap.org/data/2.5/weather"
FORECAST_URL == "http://api.openweathermap.org/data/2.5/forecast"

StatusSet == {"ok", "404", "500", "transport"}

\* Variant: the key check never fires
handle_api_error_never(key) == [ret |-> FALSE, msgs |-> <<>>]

\* handle_api_error(): True, with two error messages, iff the key is the
\* placeholder
handle_api_error(key) ==
    IF key = PLACEHOLDER
    THEN [ret |-> TRUE, msgs |-> <<"error: API key not found", "error: create secrets.toml">>]
    ELSE [ret |-> FALSE, msgs |-> <<>>]

get_current_weather_data(key, response) ==
    LET chk == handle_api_error(key)
    IN  IF chk.ret
        THEN [ret |-> <<>>, msgs |-> chk.msgs, reqs |-> <<>>]
        ELSE [ret |-> IF response.status = "ok" THEN <<response.body>> ELSE <<>>,
              msgs |-> chk.msgs \o
                       (CASE response.status = "ok" -> <<>>
                          [] response.status = "404" -> <<"error: city not found for current weather">>
                          [] response.status = "500" -> <<"error: HTTP error fetching current weather">>
                          [] response.status = "transport" -> <<"error: connecting for current weather">>),
              reqs |-> <<CURRENT_WEATHER_URL>>]

\* Variant: the 404 branch shows nothing
get_forecast_data_silent_404(key, response) ==
    LET chk == handle_api_error(key)
    IN  IF chk.ret
        THEN [ret |-> <<>>, msgs |-> chk.msgs, reqs |-> <<>>]
        ELSE [ret |-> IF response.status = "ok" THEN <<response.body>> ELSE <<>>,
              msgs |-> chk.msgs \o
                       (CASE response.status = "ok" -> <<>>
                          [] response.status = "404" -> <<>>
                          [] response.status = "500" -> <<"error: HTTP error fetching forecast">>
                          [] response.status = "transport" -> <<"error: connecting for forecast">>),
              reqs |-> <<FORECAST_URL>>]

\* Variant: raise_for_status is not called, an HTTP error body is returned
get_forecast_data_no_raise(key, response) ==
    LET chk == handle_api_error(key)
    IN  IF chk.ret
        THEN [ret |-> <<>>, msgs |-> chk.msgs, reqs |-> <<>>]
        ELSE [ret |-> IF response.status = "transport" THEN <<>> ELSE <<response.body>>,
              msgs |-> chk.msgs \o
                       (IF response.status = "transport"
                        THEN <<"error: connecting for forecast">> ELSE <<>>),
              reqs |-> <<FORECAST_URL>>]

get_forecast_data(key, response) ==
    LET chk == handle_api_error(key)
    IN  IF chk.ret
        THEN [ret |-> <<>>, msgs |-> chk.msgs, reqs |-> <<>>]
        ELSE [ret |-> IF response.status = "ok" THEN <<response.body>> ELSE <<>>,
              msgs |-> chk.msgs \o
                       (CASE response.status = "ok" -> <<>>
                          [] response.status = "404" -> <<"warning: forecast not available for this city">>
                          [] response.status = "500" -> <<"error: HTTP error fetching forecast">>
                          [] response.status = "transport" -> <<"error: connecting for forecast">>),
              reqs |-> <<FORECAST_URL>>]

(***************************************************************************)
(* Inputs: the payloads the API may return                                 *)
(***************************************************************************)
\* Day 19781 after 1970-01-01 is 2024-02-28, a Wednesday
T1 == 19781 * SecsPerDay + 21 * 3600            \* 2024-02-28 21:00 UTC
T2 == 19782 * SecsPerDay + 20 * 3600            \* 2024-02-29 20:00 UTC
T3 == 19783 * SecsPerDay + 12 * 3600            \* 2024-03-01 12:00 UTC
FeedStart == 19781 * SecsPerDay + 6 * 3600      \* 2024-02-28 06:00 UTC
East == 5 * 3600 + 1800                         \* UTC+05:30
West == -(5 * 3600)                             \* UTC-05:00
Sunrise == 19781 * SecsPerDay + 6 * 3600 + 1800
Sunset == 19781 * SecsPerDay + 18 * 3600

Opt(x) == {None, Some(x)}

\* Entries of arbitrary lists: timestamp, temperature and wind degree vary
ItemSet ==
    [dt : {None, Some(T1), Some(T2), Some(T3)}, temp : Opt(21), feels_like : {Some(20)},
     humidity : {Some(60)}, speed : {Some(5)}, deg : Opt(90)]

\* Entries of one-entry lists: every field may be absent
AnyItemSet ==
    [dt : Opt(T1), temp : Opt(21), feels_like : Opt(20),
     humidity : Opt(60), speed : Opt(5), deg : Opt(90)]

ListsUpTo(S, n) == UNION {[1..k -> S] : k \in 0..n}

\* A chronological feed of n entries, step seconds apart; entry noDt has no
\* timestamp and entry noDeg no wind degree (0: none)
Feed(step, n, noDt, noDeg) ==
    [i \in 1..n |->
        [dt |-> IF i = noDt THEN None ELSE Some(FeedStart + (i - 1) * step),
         temp |-> Some(21), feels_like |-> Some(20), humidity |-> Some(60),
         speed |-> Some(5), deg |-> IF i = noDeg THEN None ELSE Some(90)]]

FeedSet ==
    {Feed(step, n, noDt, noDeg) :
        step \in {10800, 43200}, n \in 1..MaxFeed, noDt \in 0..1, noDeg \in {0, 2, 5}}

ForecastPayload(list) == [haslist |-> TRUE, list |-> list]
NoListPayload == [haslist |-> FALSE, list |-> <<>>]

\* Forecast payloads of the forecast specification and of the main flow
ForecastPayloads ==
    {ForecastPayload(l) : l \in ListsUpTo(ItemSet, MaxLen) \cup ListsUpTo(AnyItemSet, 1) \cup FeedSet}
        \cup {NoListPayload}

FlowForecastPayloads ==
    {ForecastPayload(l) : l \in ListsUpTo(ItemSet, MaxFlowLen) \cup {Feed(10800, 9, 0, 0), Feed(10800, 9, 0, 5)}}
        \cup {NoListPayload}

TimezoneSet == {Absent, None, Some(0), Some(East), Some(West)}

CurrentFields ==
    {"temp", "feels_like", "temp_min", "temp_max", "pressure", "humidity", "visibility",
     "wind_speed", "wind_deg", "wind_gust", "clouds", "sunrise", "sunset"}

\* The current-conditions payload with the fields of missing absent
CurrentPayload(missing, tz) ==
    LET F(name, x) == IF name \in missing THEN None ELSE Some(x)
    IN  [temp |-> F("temp", 21), feels_like |-> F("feels_like", 20),
         temp_min |-> F("temp_min", 18), temp_max |-> F("temp_max", 24),
         pressure |-> F("pressure", 1013), humidity |-> F("humidity", 60),
         visibility |-> F("visibility", 10000), wind_speed |-> F("wind_speed", 5),
         wind_deg |-> F("wind_deg", 270), wind_gust |-> F("wind_gust", 9),
         clouds |-> F("clouds", 40), sunrise |-> F("sunrise", Sunrise),
         sunset |-> F("sunset", Sunset), timezone |-> tz]

CurrentPayloads ==
    {CurrentPayload(m, tz) :
        m \in {x \in SUBSET CurrentFields : Cardinality(x) <= MaxMissing}, tz \in TimezoneSet}

(***************************************************************************)
(* State: one run of main after the page is loaded                         *)
(***************************************************************************)
VARIABLES
    pc,                    \* position in main
    OWM_API_KEY,           \* the configured key or the placeholder
    requests,              \* HTTP requests issued in this run, in order
    messages,              \* st.error / st.warning messages shown in this run
    current_weather_data,  \* <<>> (None) or <<payload>>
    forecast_data,         \* <<>> (None) or <<payload>>
    weather_out,           \* what display_weather has put on the page
    forecast_out,          \* what display_forecast has put on the page
    outcomes               \* history: how each fetch of this run ended, in order

vars == <<pc, OWM_API_KEY, requests, messages, current_weather_data, forecast_data,
          weather_out, forecast_out, outcomes>>

\* How a fetch ended: "no_key" when the key check stopped it, else the status
\* of the response
Outcome(op, key, status) ==
    [op |-> op, status |-> IF key = PLACEHOLDER THEN "no_key" ELSE status]

Init ==
    /\ pc = "idle"
    /\ OWM_API_KEY \in {PLACEHOLDER, REAL_KEY}
    /\ requests = <<>>
    /\ messages = <<>>
    /\ current_weather_data = <<>>
    /\ forecast_data = <<>>
    /\ weather_out = NoWeatherOut
    /\ forecast_out = NoForecastOut
    /\ outcomes = <<>>

\* main, line 429: the Fetch Weather button is pressed with a city selected
MainFetchPressed ==
    /\ pc = "idle"
    /\ pc' = "get_current"
    /\ UNCHANGED <<OWM_API_KEY, requests, messages, current_weather_data, forecast_data,
                   weather_out, forecast_out, outcomes>>

\* main, line 446: the button is pressed with no city selected
MainNoCity ==
    /\ pc = "idle"
    /\ pc' = "done"
    /\ messages' = Append(messages, "warning: please select a city")
    /\ UNCHANGED <<OWM_API_KEY, requests, current_weather_data, forecast_data,
                   weather_out, forecast_out, outcomes>>

\* Variant: the forecast is fetched whether or not current conditions came
after_current_unguarded(ret) == IF ret # <<>> THEN "display_weather" ELSE "get_forecast"

\* main, line 434: "if current_weather_data:" guards the display and the
\* forecast fetch
after_current(ret) == IF ret # <<>> THEN "display_weather" ELSE "done"

\* main, line 442: "if forecast_data:" guards display_forecast
after_forecast(ret) == IF ret # <<>> THEN "display_forecast" ELSE "done"

\* main, lines 432-434: current_weather_data = get_current_weather_data(...)
MainGetCurrent ==
    /\ pc = "get_current"
    /\ \E status \in StatusSet, body \in CurrentPayloads :
          LET r == get_current_weather_data(OWM_API_KEY, [status |-> status, body |-> body])
          IN  /\ current_weather_data' = r.ret
              /\ messages' = messages \o r.msgs
              /\ requests' = requests \o r.reqs
              /\ outcomes' = Append(outcomes, Outcome("current", OWM_API_KEY, status))
              /\ pc' = after_current(r.ret)
    /\ UNCHANGED <<OWM_API_KEY, forecast_data, weather_out, forecast_out>>

\* main, line 436: display_weather(current_weather_data)
MainDisplayWeather ==
    /\ pc = "display_weather"
    /\ weather_out' = display_weather(current_weather_data[1])
    /\ pc' = IF weather_out'.fault = "none" THEN "get_forecast" ELSE "crashed"
    /\ UNCHANGED <<OWM_API_KEY, requests, messages, current_weather_data, forecast_data,
                   forecast_out, outcomes>>

\* main, lines 441-442: forecast_data = get_forecast_data(...)
MainGetForecast ==
    /\ pc = "get_forecast"
    /\ \E status \in StatusSet, body \in FlowForecastPayloads :
          LET r == get_forecast_data(OWM_API_KEY, [status |-> status, body |-> body])
          IN  /\ forecast_data' = r.ret
              /\ messages' = messages \o r.msgs
              /\ requests' = requests \o r.reqs
              /\ outcomes' = Append(outcomes, Outcome("forecast", OWM_API_KEY, status))
              /\ pc' = after_forecast(r.ret)
    /\ UNCHANGED <<OWM_API_KEY, current_weather_data, weather_out, forecast_out>>

\* main, lines 443-444: display_forecast(forecast_data, timezone_offset)
MainDisplayForecast ==
    /\ pc = "display_forecast"
    /\ LET timezone_offset == get_timezone(current_weather_data[1])
           out == display_forecast(forecast_data[1], timezone_offset)
       IN  /\ forecast_out' = out
           /\ messages' = IF out.warning
                          THEN Append(messages, "warning: no forecast data available")
                          ELSE messages
           /\ pc' = IF out.fault = "none" THEN "done" ELSE "crashed"
    /\ UNCHANGED <<OWM_API_KEY, requests, current_weather_data, forecast_data, weather_out,
                   outcomes>>

\* The next interaction reruns the script: the page and the locals start over
Rerun ==
    /\ pc \in {"done", "crashed"}
    /\ pc' = "idle"
    /\ requests' = <<>>
    /\ messages' = <<>>
    /\ current_weather_data' = <<>>
    /\ forecast_data' = <<>>
    /\ weather_out' = NoWeatherOut
    /\ forecast_out' = NoForecastOut
    /\ outcomes' = <<>>
    /\ UNCHANGED OWM_API_KEY

Next ==
    \/ MainFetchPressed
    \/ MainNoCity
    \/ MainGetCurrent
    \/ MainDisplayWeather
    \/ MainGetForecast
    \/ MainDisplayForecast
    \/ Rerun

Spec == Init /\ [][Next]_vars

(***************************************************************************)
(* display_forecast on its own: the state of main at line 444, with any    *)
(* forecast payload and any timezone of the current-conditions payload     *)
(***************************************************************************)
InitForecast ==
    /\ pc = "display_forecast"
    /\ OWM_API_KEY = REAL_KEY
    /\ requests = <<CURRENT_WEATHER_URL, FORECAST_URL>>
    /\ messages = <<>>
    /\ \E tz \in TimezoneSet : current_weather_data = <<CurrentPayload({}, tz)>>
    /\ \E p \in ForecastPayloads : forecast_data = <<p>>
    /\ weather_out = display_weather(current_weather_data[1])
    /\ forecast_out = NoForecastOut
    /\ outcomes = <<Outcome("current", REAL_KEY, "ok"), Outcome("forecast", REAL_KEY, "ok")>>

NextForecast == MainDisplayForecast

SpecForecast == InitForecast /\ [][NextForecast]_vars

(***************************************************************************)
(* The fetch functions on their own: each is called once, with or without  *)
(* a configured key                                                        *)
(***************************************************************************)
InitFetch ==
    /\ pc \in {"get_current", "get_forecast"}
    /\ OWM_API_KEY \in {PLACEHOLDER, REAL_KEY}
    /\ requests = <<>>
    /\ messages = <<>>
    /\ current_weather_data = <<>>
    /\ forecast_data = <<>>
    /\ weather_out = NoWeatherOut
    /\ forecast_out = NoForecastOut
    /\ outcomes = <<>>

NextFetch == MainGetCurrent \/ MainGetForecast

SpecFetch == InitFetch /\ [][NextFetch]_vars

(***************************************************************************)
(* Vocabulary of the properties                                            *)
(***************************************************************************)
Last(q) == q[Len(q)]
Range(q) == {q[i] : i \in 1..Len(q)}
IsPrefix(p, q) == Len(p) <= Len(q) /\ SubSeq(q, 1, Len(p)) = p

\* Concatenation of a sequence of sequences
Flatten(qq) ==
    LET RECURSIVE cat(_)
        cat(i) == IF i = 0 THEN <<>> ELSE cat(i - 1) \o qq[i]
    IN  cat(Len(qq))

\* display_forecast has run in this run of main
ForecastDisplayed == forecast_data # <<>> /\ pc \in {"done", "crashed"}

\* display_weather has run in this run of main
WeatherDisplayed == current_weather_data # <<>> /\ pc # "display_weather"

\* The inputs of display_forecast
InList == forecast_list_of(forecast_data[1])
InOffset == get_timezone(current_weather_data[1])

\* The entries that are not dropped, by position in the input, in input order
IsKept(i) == InList[i].dt # None /\ InOffset # None
KeptIdx == SelectSeq([i \in 1..Len(InList) |-> i], IsKept)

\* The local day of an entry straight from the arithmetic of the claim:
\* whole days since the epoch of (UTC timestamp + offset seconds)
LocalDay(i) == (InList[i].dt.v + InOffset.v) \div SecsPerDay

\* The distinct local days of the kept entries in first-seen order
FirstSeenDays ==
    LET RECURSIVE seen(_)
        seen(n) == IF n = 0 THEN <<>>
                   ELSE LET u == seen(n - 1)
                            d == LocalDay(KeptIdx[n])
                        IN  IF d \in Range(u) THEN u ELSE Append(u, d)
    IN  seen(Len(KeptIdx))

\* The kept entries of one local day, in input order
DayIdx(d) == SelectSeq(KeptIdx, LAMBDA i : LocalDay(i) = d)

\* The kept entries regrouped by local day: days in first-seen order, input
\* order within a day
GroupedIdx == Flatten([n \in 1..Len(FirstSeenDays) |-> DayIdx(FirstSeenDays[n])])

\* Local days arrive in contiguous runs: no day recurs after another day
ContiguousRuns ==
    \A a, b, c \in 1..Len(KeptIdx) :
        (a < b /\ b < c /\ LocalDay(KeptIdx[a]) = LocalDay(KeptIdx[c]))
            => LocalDay(KeptIdx[b]) = LocalDay(KeptIdx[a])

\* The entries shown, by position in the input: per tab, and over all tabs in
\* tab order, then row order, then left to right
IdxOf(cards) == [k \in 1..Len(cards) |-> cards[k].idx]
TabShownIdx(t) == IdxOf(Flatten(forecast_out.grid[t]))
ShownIdx == IdxOf(Flatten([t \in 1..Len(forecast_out.grid) |-> Flatten(forecast_out.grid[t])]))

Returned == forecast_out.fault = "none"

(***************************************************************************)
(* C1: grouping preserves the input order                                  *)
(***************************************************************************)

C2_PartitionByLocalDate ==
    ForecastDisplayed =>
        /\ \A i \in Range(KeptIdx) :
               Cardinality({<<t, k>> \in (1..Len(forecast_out.grid)) \X (1..Len(InList)) :
                               k <= Len(TabShownIdx(t)) /\ TabShownIdx(t)[k] = i}) = 1
        /\ \A i, j \in Range(KeptIdx) :
               (\E t \in 1..Len(forecast_out.grid) :
                    i \in Range(TabShownIdx(t)) /\ j \in Range(TabShownIdx(t)))
                   <=> LocalDay(i) = LocalDay(j)
        /\ Range(ShownIdx) \subseteq Range(KeptIdx)

\* What does hold: the same statement on the runs in which display_forecast
\* returns
C2_WhenReturned == (ForecastDisplayed /\ Returned) => C2_PartitionByLocalDate

(***************************************************************************)
(* C3: everything filtered out                                             *)
(***************************************************************************)

\* C3: a non-empty forecast list of which every entry is dropped gives the
\* "no data" warning, no day-groups and no error.
C3_AllDroppedWarns ==
    (ForecastDisplayed /\ InList # <<>> /\ KeptIdx = <<>>) =>
        /\ forecast_out.warning
        /\ forecast_out.grid = <<>>
        /\ forecast_out.titles = <<>>
        /\ forecast_out.fault = "none"

(***************************************************************************)
(* C4: absent optional fields                                              *)
(***************************************************************************)
Garbled == {"None", "nan"}

WidgetText(label) ==
    LET hit == {i \in 1..Len(weather_out.widgets) : weather_out.widgets[i].label = label}
    IN  IF hit = {} THEN "not shown" ELSE weather_out.widgets[CHOOSE i \in hit : TRUE].text

\* The widget that shows each optional field of the current conditions
WidgetOf ==
    [temp |-> "Temperature", feels_like |-> "Feels Like", temp_min |-> "Min/Max Temp",
     temp_max |-> "Min/Max Temp", humidity |-> "Humidity", wind_speed |-> "Wind Speed",
     wind_deg |-> "Wind Direction", wind_gust |-> "Wind Gust", visibility |-> "Visibility",
     clouds |-> "Cloudiness", sunrise |-> "Sunrise", sunset |-> "Sunset"]

\* C4: display_weather and display_forecast never raise and never show a
\* garbled value because of an absent optional field; each absent field is
\* shown as "N/A".
C4_AbsentFieldsShowNA ==
    /\ WeatherDisplayed =>
          /\ weather_out.fault = "none"
          /\ \A f \in DOMAIN WidgetOf :
                current_weather_data[1][f] = None => WidgetText(WidgetOf[f]) = "N/A"
          /\ \A i \in 1..Len(weather_out.widgets) : weather_out.widgets[i].text \notin Garbled
    /\ (ForecastDisplayed /\ KeptIdx # <<>>) =>
          /\ forecast_out.fault = "none"
          /\ \A t \in 1..Len(forecast_out.grid) :
                \A c \in Range(Flatten(forecast_out.grid[t])) :
                   /\ InList[c.idx].temp = None => c.Temp = "N/A"
                   /\ InList[c.idx].feels_like = None => c.FeelsLike = "N/A"
                   /\ InList[c.idx].humidity = None => c.Humidity = "N/A"
                   /\ InList[c.idx].speed = None => c.WindSpeed = "N/A"
                   /\ InList[c.idx].deg = None => c.WindDir = "N/A"

(***************************************************************************)
(* C5: fetch failures are caught and reported                              *)
(***************************************************************************)
KeyMessages == {"error: API key not found", "error: create secrets.toml"}

\* The messages that report a failure of each fetch
FailureMessages ==
    [current |-> {"error: city not found for current weather",
                  "error: HTTP error fetching current weather",
                  "error: connecting for current weather"} \cup KeyMessages,
     forecast |-> {"warning: forecast not available for this city",
                   "error: HTTP error fetching forecast",
                   "error: connecting for forecast"} \cup KeyMessages]

FetchedData(op) == IF op = "current" THEN current_weather_data ELSE forecast_data

FetchFailed == outcomes # <<>> /\ Last(outcomes).status # "ok"

\* C5: whenever a fetch has failed (key missing, 404, other HTTP error,
\* transport failure) it returned no payload, its message is the last thing
\* shown, and the run ended normally: nothing was raised out of the fetch.
C5_FailuresReported ==
    FetchFailed =>
        /\ FetchedData(Last(outcomes).op) = <<>>
        /\ messages # <<>>
        /\ Last(messages) \in FailureMessages[Last(outcomes).op]
        /\ pc = "done"

C5_Witness ==
    /\ FetchFailed
    /\ Last(outcomes) = [op |-> "forecast", status |-> "transport"]
    /\ Last(messages) = "error: connecting for forecast"

(***************************************************************************)
(* C6: no request without a key                                            *)
(***************************************************************************)

\* C6: with the key missing, neither fetch function issues a request; each
\* shows the key error and returns None.
C6_NoKeyNoRequest ==
    OWM_API_KEY = PLACEHOLDER =>
        /\ requests = <<>>
        /\ outcomes # <<>> =>
              /\ KeyMessages \subseteq Range(messages)
              /\ current_weather_data = <<>>
              /\ forecast_data = <<>>

C6_Witness ==
    /\ OWM_API_KEY = PLACEHOLDER
    /\ outcomes = <<[op |-> "forecast", status |-> "no_key"]>>
    /\ requests = <<>>

(***************************************************************************)
(* C7: the forecast is requested only after current conditions succeeded   *)
(***************************************************************************)

\* C7: a forecast request is only ever issued after the current-conditions
\* request of the same run returned a payload; when that lookup fails no
\* forecast request is sent, the run does not crash, and a 404 shows the
\* not-found message.
C7_ForecastAfterCurrent ==
    /\ FORECAST_URL \in Range(requests) =>
          /\ requests = <<CURRENT_WEATHER_URL, FORECAST_URL>>
          /\ outcomes[1] = [op |-> "current", status |-> "ok"]
          /\ current_weather_data # <<>>
    /\ (outcomes # <<>> /\ outcomes[1].status # "ok") =>
          /\ FORECAST_URL \notin Range(requests)
          /\ Len(outcomes) = 1
          /\ pc = "done"
          /\ outcomes[1].status = "404" =>
                messages = <<"error: city not found for current weather">>

C7_Witness ==
    /\ outcomes = <<[op |-> "current", status |-> "404"]>>
    /\ requests = <<CURRENT_WEATHER_URL>>
    /\ pc = "done"

(***************************************************************************)
(* C8: partial success                                                     *)
(***************************************************************************)
ForecastFailed ==
    /\ Len(outcomes) = 2
    /\ outcomes[2].op = "forecast"
    /\ outcomes[2].status # "ok"

\* C8: when current conditions succeeded and the forecast fetch failed, the
\* whole current-conditions summary is on the page, the failure added one
\* message, and no forecast group is shown.
C8_PartialSuccess ==
    ForecastFailed =>
        /\ weather_out = display_weather(current_weather_data[1])
        /\ weather_out.fault = "none"
        /\ Len(weather_out.widgets) = Len(weather_widgets(current_weather_data[1]))
        /\ Len(messages) = 1
        /\ forecast_out = NoForecastOut

C8_Witness ==
    /\ ForecastFailed
    /\ outcomes[2].status = "500"
    /\ Len(weather_out.widgets) = 15
    /\ pc = "done"

(***************************************************************************)
(* C9: positional day labels                                               *)
(***************************************************************************)

\* The weekday of a day number: 1970-01-01 was a Thursday
WeekdayOfDay(d) == DayNames[((d + 3) % 7) + 1]

\* C9: there is one label per distinct local date, in first-seen order; the
\* first is "Today", the second "Tomorrow", each later one the weekday name
\* of its group's own local date.
C9_PositionalLabels ==
    ForecastDisplayed =>
        /\ Len(forecast_out.titles) = Len(FirstSeenDays)
        /\ \A n \in 1..Len(forecast_out.titles) :
              forecast_out.titles[n].title =
                  IF n = 1 THEN "Today"
                  ELSE IF n = 2 THEN "Tomorrow"
                  ELSE WeekdayOfDay(FirstSeenDays[n])

C9_Witness ==
    /\ ForecastDisplayed
    /\ Len(forecast_out.titles) >= 3
    /\ [n \in 1..3 |-> forecast_out.titles[n].title] = <<"Today", "Tomorrow", "Friday">>

(***************************************************************************)
(* C10: the card grid                                                      *)
(***************************************************************************)
CeilDiv(n, k) == (n + k - 1) \div k

\* C10: the grid of a day-group of N entries has ceil(N/4) rows, every row
\* but the last holds 4 cards, the last holds 1 to 4, and the rows
\* concatenated are the group in order.
C10_GridShape ==
    ForecastDisplayed =>
        \A t \in 1..Len(FirstSeenDays) :
            LET group == DayIdx(FirstSeenDays[t])
                N == Len(group)
                rows == forecast_out.grid[t]
            IN  /\ t <= Len(forecast_out.grid)
                /\ Len(rows) = CeilDiv(N, 4)
                /\ \A r \in 1..Len(rows) :
                      IF r < Len(rows) THEN Len(rows[r]) = 4
                      ELSE Len(rows[r]) \in 1..4
                /\ IdxOf(Flatten(rows)) = group

\* What does hold: the same statement on the runs in which display_forecast
\* returns
C10_WhenReturned == (ForecastDisplayed /\ Returned) => C10_GridShape

\* The example of the specification: 9 three-hourly entries, 6 on the first
\* local day and 3 on the second, offset 0
C10_Example ==
    (ForecastDisplayed /\ InList = Feed(10800, 9, 0, 0) /\ InOffset = Some(0)) =>
        /\ [n \in 1..2 |-> forecast_out.titles[n].title] = <<"Today", "Tomorrow">>
        /\ [n \in 1..2 |-> [r \in 1..Len(forecast_out.grid[n]) |-> Len(forecast_out.grid[n][r])]]
               = << <<4, 2>>, <<3>> >>

====
